---- MODULE Spec2Model ----
(***************************************************************************)
(* Model of the Crate.io Prometheus adapter (src/server.go).               *)
(*                                                                         *)
(* The adapter is a stateless HTTP server: its only state that survives a  *)
(* request are the process-wide metrics.  A request, the statement posted  *)
(* to the store, the store's reply and the response are the messages in    *)
(* flight; they are kept in `call` and `result`.                           *)
(*                                                                         *)
(* Representation of Go values:                                            *)
(*   string   a sequence of one-character strings, ordered bytewise by     *)
(*            Byte (sort.Strings compares bytes);                          *)
(*   uint64   four 16-bit limbs, most significant first;                   *)
(*   int64    the mathematical integer, [neg, mag] with mag in limbs;      *)
(*   float64  its IEEE-754 bit pattern (a uint64): math.Float64bits and    *)
(*            math.Float64frombits only relabel the pattern.               *)
(***************************************************************************)
EXTENDS Integers, Sequences, FiniteSets, TLC

VARIABLES
    call,              \* the operation in progress or last performed and its input
    result,            \* what it produced (response, statement, series, ...)
    writeSamples,      \* summary crate_adapter_write_timeseries_samples: observations
    readSamples,       \* summary crate_adapter_read_timeseries_samples: observations
    writeCrateErrors,  \* counter crate_adapter_write_crate_failed_total
    readCrateErrors,   \* counter crate_adapter_read_crate_failed_total
    handled            \* number of requests handled so far

vars == <<call, result, writeSamples, readSamples, writeCrateErrors, readCrateErrors, handled>>

metrics == <<writeSamples, readSamples, writeCrateErrors, readCrateErrors>>

(***************************************************************************)
(* Strings                                                                 *)
(***************************************************************************)

\* The byte value of each character the model uses.
Byte ==
    (" " :> 32) @@ ("\"" :> 34) @@ ("$" :> 36) @@ ("'" :> 39) @@ ("(" :> 40) @@
    (")" :> 41) @@ ("*" :> 42) @@ ("+" :> 43) @@ ("," :> 44) @@ ("1" :> 49) @@
    ("2" :> 50) @@ (":" :> 58) @@ ("=" :> 61) @@ ("?" :> 63) @@ ("R" :> 82) @@
    ("\\" :> 92) @@ ("^" :> 94) @@ ("_" :> 95) @@ ("a" :> 97) @@ ("b" :> 98) @@
    ("e" :> 101) @@ ("j" :> 106) @@ ("l" :> 108) @@ ("m" :> 109) @@ ("n" :> 110) @@
    ("o" :> 111) @@ ("p" :> 112) @@ ("s" :> 115) @@ ("t" :> 116) @@ ("u" :> 117) @@
    ("v" :> 118) @@ ("w" :> 119) @@ ("x" :> 120) @@ ("{" :> 123) @@ ("|" :> 124) @@
    ("}" :> 125)

\* Go's s < t on strings: bytewise lexicographic.
RECURSIVE StrLess(_, _)
StrLess(s, t) ==
    IF t = <<>> THEN FALSE
    ELSE IF s = <<>> THEN TRUE
    ELSE IF Byte[Head(s)] # Byte[Head(t)] THEN Byte[Head(s)] < Byte[Head(t)]
    ELSE StrLess(Tail(s), Tail(t))

\* sort.Strings applied to the elements of a set of strings.
RECURSIVE SortStrings(_)
SortStrings(S) ==
    IF S = {} THEN <<>>
    ELSE LET m == CHOOSE x \in S : \A y \in S \ {x} : StrLess(x, y)
         IN  <<m>> \o SortStrings(S \ {m})

\* The concatenation of a sequence of strings.
RECURSIVE Concat(_)
Concat(ss) == IF ss = <<>> THEN <<>> ELSE Head(ss) \o Concat(Tail(ss))

\* strings.Join(ss, sep)
RECURSIVE Join(_, _)
Join(ss, sep) ==
    IF ss = <<>> THEN <<>>
    ELSE IF Len(ss) = 1 THEN ss[1]
    ELSE ss[1] \o sep \o Join(Tail(ss), sep)

\* All strings over the characters C of length at most n.
RECURSIVE StringsUpTo(_, _)
StringsUpTo(C, n) ==
    IF n = 0 THEN {<<>>}
    ELSE LET shorter == StringsUpTo(C, n - 1)
         IN  shorter \cup {Append(s, c) : s \in shorter, c \in C}

(***************************************************************************)
(* 64-bit integers                                                         *)
(***************************************************************************)

Zero64 == <<0, 0, 0, 0>>

\* l + 1 modulo 2^64
Inc64(l) ==
    IF l[4] < 65535 THEN <<l[1], l[2], l[3], l[4] + 1>>
    ELSE IF l[3] < 65535 THEN <<l[1], l[2], l[3] + 1, 0>>
    ELSE IF l[2] < 65535 THEN <<l[1], l[2] + 1, 0, 0>>
    ELSE <<(l[1] + 1) % 65536, 0, 0, 0>>

\* 2^64 - l modulo 2^64 (two's complement negation)
Neg64(l) == Inc64([i \in 1..4 |-> 65535 - l[i]])

\* The int64 n for a small natural n.
I64(n) == [neg |-> FALSE, mag |-> <<0, 0, 0, n>>]

MaxInt64 == [neg |-> FALSE, mag |-> <<32767, 65535, 65535, 65535>>]

MinInt64 == [neg |-> TRUE, mag |-> <<32768, 0, 0, 0>>]

\* A mutant of Uint64FromInt64: the magnitude, without the wrap modulo 2^64.
Uint64FromInt64_NoWrap(v) == v.mag

\* Go's conversion uint64(val) of an int64 (server.go:170).
Uint64FromInt64(v) == IF v.neg THEN Neg64(v.mag) ELSE v.mag

\* Go's conversion int64(bits) of a uint64 (server.go:345): the value of the
\* same 64 bits read as two's complement.
Int64FromUint64(b) ==
    IF b[1] < 32768 THEN [neg |-> FALSE, mag |-> b]
    ELSE [neg |-> TRUE, mag |-> Neg64(b)]

\* Whether v is in the range of int64.
InInt64Range(v) ==
    IF v.neg THEN v.mag[1] < 32768 \/ v.mag = MinInt64.mag
    ELSE v.mag[1] < 32768

(***************************************************************************)
(* Escaping (server.go:83-94)                                              *)
(***************************************************************************)

\* escaper.Replace: a backslash before every backslash, double quote and
\* single quote.
RECURSIVE EscaperReplace(_)
EscaperReplace(s) ==
    IF s = <<>> THEN <<>>
    ELSE (IF Head(s) \in {"\\", "\"", "'"} THEN <<"\\", Head(s)>> ELSE <<Head(s)>>)
         \o EscaperReplace(Tail(s))

escapeLabelName(s) == <<"\"", "l">> \o EscaperReplace(s) \o <<"\"">>

escapeLabelValue(s) == <<"'">> \o EscaperReplace(s) \o <<"'">>

(***************************************************************************)
(* regexp.MatchString(re, ""): whether re parses, and whether it matches   *)
(* the empty string.  The parser follows regexp/syntax for the operators   *)
(* ( ) (?: | * + ? ^ $ ; every other character is a literal.  A frame is   *)
(* one open group: alt, whether an earlier alternative of it matches the   *)
(* empty string; cat, whether the operands of the current alternative      *)
(* before the last one all do; last, whether the last operand does ("T",   *)
(* "F"), or "none" when there is no operand a repetition could apply to.   *)
(***************************************************************************)

Frame0 == [alt |-> FALSE, cat |-> TRUE, last |-> "none"]

LastMatchesEmpty(f) == f.last # "F"

FrameMatchesEmpty(f) == f.alt \/ (f.cat /\ LastMatchesEmpty(f))

\* The frame with one more operand, which matches the empty string iff e.
PushOperand(f, e) ==
    [alt |-> f.alt, cat |-> f.cat /\ LastMatchesEmpty(f), last |-> IF e THEN "T" ELSE "F"]

ReError == [err |-> TRUE, matched |-> FALSE]

RECURSIVE ReParse(_, _, _, _)
ReParse(re, i, stack, lastRepeat) ==
    LET n == Len(stack)
        top == stack[n]
        at(k) == IF k <= Len(re) THEN re[k] ELSE ""
    IN
    IF i > Len(re)
    THEN IF n > 1 THEN ReError  \* missing closing )
         ELSE [err |-> FALSE, matched |-> FrameMatchesEmpty(top)]
    ELSE CASE re[i] = "(" ->
                IF at(i + 1) = "?"
                THEN IF at(i + 2) = ":"
                     THEN ReParse(re, i + 3, Append(stack, Frame0), FALSE)
                     ELSE ReError  \* invalid or unsupported Perl syntax
                ELSE ReParse(re, i + 1, Append(stack, Frame0), FALSE)
           [] re[i] = ")" ->
                IF n = 1 THEN ReError  \* unexpected )
                ELSE ReParse(re, i + 1,
                             Append(SubSeq(stack, 1, n - 2),
                                    PushOperand(stack[n - 1], FrameMatchesEmpty(top))),
                             FALSE)
           [] re[i] = "|" ->
                ReParse(re, i + 1,
                        [stack EXCEPT ![n] = [alt |-> FrameMatchesEmpty(top),
                                              cat |-> TRUE, last |-> "none"]],
                        FALSE)
           [] re[i] \in {"*", "+", "?"} ->
                IF top.last = "none" \/ lastRepeat
                THEN ReError  \* missing argument to, or nested, repetition operator
                ELSE ReParse(re, IF at(i + 1) = "?" THEN i + 2 ELSE i + 1,
                             [stack EXCEPT ![n].last = IF re[i] = "+" THEN @ ELSE "T"],
                             TRUE)
           [] re[i] \in {"^", "$"} ->
                ReParse(re, i + 1, [stack EXCEPT ![n] = PushOperand(top, TRUE)], FALSE)
           [] OTHER ->
                ReParse(re, i + 1, [stack EXCEPT ![n] = PushOperand(top, FALSE)], FALSE)

MatchStringEmpty(re) == ReParse(re, 1, <<Frame0>>, FALSE)

\* re := "^(?:" + m.Value + ")$"
Anchored(value) == <<"^", "(", "?", ":">> \o value \o <<")", "$">>

(***************************************************************************)
(* queryToSQL (server.go:106-154).  SQL text is a sequence of chunks whose *)
(* concatenation is the text: the format string's fixed pieces are chunks  *)
(* of their own, the characters of escaped names and values are            *)
(* one-character chunks.                                                   *)
(***************************************************************************)

\* The selector one matcher contributes (the switch of server.go:110-148),
\* for a matcher whose regular expression, if any, parses.
MatcherSelector(m) ==
    LET col == escapeLabelName(m.name)
        val == escapeLabelValue(m.value)
        re == Anchored(m.value)
        lit == escapeLabelValue(re)
        matchesEmpty == MatchStringEmpty(re).matched
    IN  CASE m.type = "EQUAL" ->
               IF m.value = <<>> THEN <<"(">> \o col \o <<" IS NULL)">>
               ELSE <<"(">> \o col \o <<" = ">> \o val \o <<")">>
          [] m.type = "NOT_EQUAL" ->
               IF m.value = <<>> THEN <<"(">> \o col \o <<" IS NOT NULL)">>
               ELSE <<"(">> \o col \o <<" != ">> \o val \o <<")">>
          [] m.type = "REGEX_MATCH" ->
               IF matchesEmpty
               THEN <<"(">> \o col \o <<" ~ ">> \o lit \o <<" OR ">> \o col \o <<" IS NULL)">>
               ELSE <<"(">> \o col \o <<" ~ ">> \o lit \o <<")">>
          [] m.type = "REGEX_NO_MATCH" ->
               IF matchesEmpty
               THEN <<"(">> \o col \o <<" !~ ">> \o lit \o <<")">>
               ELSE <<"(">> \o col \o <<" !~ ">> \o lit \o <<" OR ">> \o col \o <<" IS NULL)">>

\* Whether translating matcher m returns an error (server.go:128-130, 140-142).
MatcherFails(m) ==
    /\ m.type \in {"REGEX_MATCH", "REGEX_NO_MATCH"}
    /\ MatchStringEmpty(Anchored(m.value)).err

\* fmt.Sprintf("%d", t) of an int64 timestamp, as one chunk; the model's
\* timestamps are small naturals.
FormatInt(t) == <<ToString(t.mag[4])>>

queryToSQL(q) ==
    IF \E i \in 1..Len(q.matchers) : MatcherFails(q.matchers[i])
    THEN [err |-> TRUE, selectors |-> <<>>, sql |-> <<>>]
    ELSE LET selectors ==
                 [i \in 1..Len(q.matchers) |-> MatcherSelector(q.matchers[i])]
                 \o << <<"(timestamp <= ">> \o FormatInt(q.endTimestampMs) \o <<")">>,
                       <<"(timestamp >= ">> \o FormatInt(q.startTimestampMs) \o <<")">> >>
         IN  [err |-> FALSE,
              selectors |-> selectors,
              sql |-> <<"SELECT * from metrics WHERE ">> \o Join(selectors, <<" AND ">>)
                      \o <<" ORDER BY timestamp">>]


(***************************************************************************)
(* The store's response (crateResponse, decoded with UseNumber).  A cell   *)
(* is nil, a string, a json.Number or another JSON value ("other").  A     *)
(* json.Number is its token: whether it is written as an integer (no       *)
(* fraction, no exponent), its sign and its magnitude (below 2^64).        *)
(***************************************************************************)

Null == [k |-> "null", s |-> <<>>, n |-> <<>>]

Str(s) == [k |-> "str", s |-> s, n |-> <<>>]

Other == [k |-> "other", s |-> <<>>, n |-> <<>>]

Num(int, neg, mag) == [k |-> "num", s |-> <<>>, n |-> [int |-> int, neg |-> neg, mag |-> mag]]

\* json.Number.Int64, i.e. strconv.ParseInt(token, 10, 64): the value and
\* whether an error is returned.  A token that is no integer gives 0, one out
\* of range the nearest int64.
ParseInt(tok) ==
    IF ~tok.int THEN [v |-> I64(0), err |-> TRUE]
    ELSE IF ~tok.neg /\ tok.mag[1] >= 32768 THEN [v |-> MaxInt64, err |-> TRUE]
    ELSE IF tok.neg /\ tok.mag[1] >= 32768 /\ tok.mag # MinInt64.mag
    THEN [v |-> MinInt64, err |-> TRUE]
    ELSE [v |-> [neg |-> tok.neg /\ tok.mag # Zero64, mag |-> tok.mag], err |-> FALSE]

Timestamp == <<"t", "i", "m", "e", "s", "t", "a", "m", "p">>

ValueRaw == <<"v", "a", "l", "u", "e", "R", "a", "w">>

Value == <<"v", "a", "l", "u", "e">>

\* model.MetricNameLabel
MetricNameLabel == <<"_", "_", "n", "a", "m", "e", "_", "_">>

\* model.Metric{}: a map from label names to label values.
EmptyMetric == [name \in {} |-> <<>>]

\* The %q verb on a string of the model's characters: in double quotes, with
\* a backslash before every double quote and backslash.
RECURSIVE QuoteChars(_)
QuoteChars(s) ==
    IF s = <<>> THEN <<>>
    ELSE (IF Head(s) \in {"\\", "\""} THEN <<"\\", Head(s)>> ELSE <<Head(s)>>)
         \o QuoteChars(Tail(s))

Quote(s) == <<"\"">> \o QuoteChars(s) \o <<"\"">>

\* model.Metric.String() of prometheus/common, called at server.go:173 and
\* 184: the name unquoted, then the other labels as name="value", sorted and
\* joined by ", ", in braces; the name alone when there is no other label;
\* "{}" for the empty metric.
MetricString(m) ==
    LET hasName == MetricNameLabel \in DOMAIN m
        metricName == IF hasName THEN m[MetricNameLabel] ELSE <<>>
        names == DOMAIN m \ {MetricNameLabel}
        labelStrings == SortStrings({name \o <<"=">> \o Quote(m[name]) : name \in names})
    IN  IF names = {}
        THEN IF hasName THEN metricName ELSE <<"{", "}">>
        ELSE metricName \o <<"{">> \o Join(labelStrings, <<",", " ">>) \o <<"}">>

\* The key a row's series is looked up and stored under (server.go:173, 184).
SeriesKey(m) == MetricString(m)

\* The labels of a new series: sorted by name (server.go:176-183).
LabelPairs(m) ==
    LET labelnames == SortStrings(DOMAIN m)
    IN  [i \in 1..Len(labelnames) |-> [name |-> labelnames[i], value |-> m[labelnames[i]]]]

\* The variables of the loop over a row, before its first cell.
Row0 == [panic |-> FALSE, metric |-> EmptyMetric, t |-> I64(0), v |-> Zero64]

\* The loop over the cells of a row (server.go:162-172), from cell i on.  It
\* panics on a row longer than the columns, on an empty column name and on a
\* failed type assertion; the errors of Int64 are dropped.
RECURSIVE ScanRow(_, _, _, _)
ScanRow(cols, row, i, acc) ==
    IF i > Len(row) THEN acc
    ELSE IF i > Len(cols) \/ cols[i] = <<>> THEN [acc EXCEPT !.panic = TRUE]
    ELSE LET column == cols[i]
             value == row[i]
         IN  IF column[1] = "l" /\ value.k # "null"
             THEN IF value.k # "str" THEN [acc EXCEPT !.panic = TRUE]
                  ELSE ScanRow(cols, row, i + 1,
                               [acc EXCEPT !.metric = (Tail(column) :> value.s) @@ @])
             ELSE IF column = Timestamp
             THEN IF value.k # "num" THEN [acc EXCEPT !.panic = TRUE]
                  ELSE ScanRow(cols, row, i + 1, [acc EXCEPT !.t = ParseInt(value.n).v])
             ELSE IF column = ValueRaw
             THEN IF value.k # "num" THEN [acc EXCEPT !.panic = TRUE]
                  ELSE ScanRow(cols, row, i + 1,
                               [acc EXCEPT !.v = Uint64FromInt64(ParseInt(value.n).v)])
             ELSE ScanRow(cols, row, i + 1, acc)

\* ts.Samples = append(ts.Samples, &remote.Sample{Value: v, TimestampMs: t})
AppendSample(ts, row) ==
    [ts EXCEPT !.samples = Append(@, [value |-> row.v, timestampMs |-> row.t])]

\* The loop over the rows (server.go:158-187), from row r on; timeseries is
\* the map from keys to the series built so far.
RECURSIVE AssembleRows(_, _, _)
AssembleRows(data, r, timeseries) ==
    IF r > Len(data.rows) THEN [panic |-> FALSE, timeseries |-> timeseries]
    ELSE LET row == ScanRow(data.cols, data.rows[r], 1, Row0)
             key == SeriesKey(row.metric)
             ts == IF key \in DOMAIN timeseries THEN timeseries[key]
                   ELSE [labels |-> LabelPairs(row.metric), samples |-> <<>>]
         IN  IF row.panic THEN [panic |-> TRUE, timeseries |-> timeseries]
             ELSE AssembleRows(data, r + 1, (key :> AppendSample(ts, row)) @@ timeseries)

\* responseToTimeseries (server.go:156-200): whether it panics, the series it
\* returns, sorted by key, and what it passes to writeSamples.Observe, in
\* order.  A panic happens before the first Observe.
responseToTimeseries(data) ==
    LET built == AssembleRows(data, 1, [key \in {} |-> <<>>])
        names == SortStrings(DOMAIN built.timeseries)
        resp == [i \in 1..Len(names) |-> built.timeseries[names[i]]]
    IN  IF built.panic THEN [panic |-> TRUE, series |-> <<>>, observed |-> <<>>]
        ELSE [panic |-> FALSE, series |-> resp,
              observed |-> [i \in 1..Len(resp) |-> Len(resp[i].samples)]]


(***************************************************************************)
(* writesToCrateRequest (server.go:300-353)                                *)
(***************************************************************************)

\* A bulk argument that is an int64.
IntArg(v) == [k |-> "int", s |-> <<>>, n |-> v]

\* fmt.Sprintf("%f", v) as a bulk argument: the strings of fmt for NaN and
\* the infinities; for a finite value its decimal expansion, which is kept
\* as the value it expands ("decimal").
FormatF(bits) ==
    LET expAllOnes == (bits[1] % 32768) >= 32752
        fracZero == bits[1] % 16 = 0 /\ bits[2] = 0 /\ bits[3] = 0 /\ bits[4] = 0
    IN  IF expAllOnes /\ ~fracZero THEN Str(<<"N", "a", "N">>)
        ELSE IF expAllOnes /\ bits[1] >= 32768 THEN Str(<<"-", "I", "n", "f">>)
        ELSE IF expAllOnes THEN Str(<<"+", "I", "n", "f">>)
        ELSE [k |-> "decimal", s |-> <<>>, n |-> bits]

\* The names of every label of the batch (server.go:302-307).
LabelsUsed(req) ==
    UNION {{req.timeseries[i].labels[j].name : j \in 1..Len(req.timeseries[i].labels)} :
              i \in 1..Len(req.timeseries)}

\* The map from a series' label names to their values (server.go:327-330):
\* a later pair of the same name replaces an earlier one.
RECURSIVE SeriesMetric(_, _)
SeriesMetric(labels, j) ==
    IF j = 0 THEN EmptyMetric
    ELSE (labels[j].name :> labels[j].value) @@ SeriesMetric(labels, j - 1)

\* metric[l] of a Go map: the empty string for a missing key.
MapGet(metric, l) == IF l \in DOMAIN metric THEN metric[l] ELSE <<>>

\* The argument for label l of a series (server.go:335-339).
LabelArg(metric, l) == IF MapGet(metric, l) = <<>> THEN Null ELSE Str(MapGet(metric, l))

\* The argument row of one sample (server.go:333-346).
SampleArgs(labels, metric, sample) ==
    [i \in 1..Len(labels) |-> LabelArg(metric, labels[i])]
    \o <<FormatF(sample.value), IntArg(Int64FromUint64(sample.value)), IntArg(sample.timestampMs)>>

\* The argument rows of the series from series i on (server.go:326-351).
RECURSIVE BulkArgs(_, _, _)
BulkArgs(req, labels, i) ==
    IF i > Len(req.timeseries) THEN <<>>
    ELSE LET ts == req.timeseries[i]
             metric == SeriesMetric(ts.labels, Len(ts.labels))
         IN  [j \in 1..Len(ts.samples) |-> SampleArgs(labels, metric, ts.samples[j])]
             \o BulkArgs(req, labels, i + 1)

\* The statement, the argument rows, and what is passed to
\* writeSamples.Observe, in order.  The statement is
\*   INSERT INTO metrics (<columns>, "value", "valueRaw", "timestamp")
\*   VALUES (<placeholders> ?, ?, ?)
\* with <columns> the escaped labels joined by ", " and <placeholders> one
\* "?, " per label.
writesToCrateRequest(req) ==
    LET labels == SortStrings(LabelsUsed(req))
        escapedLabels == [i \in 1..Len(labels) |-> escapeLabelName(labels[i])]
        placeholders == Concat([i \in 1..Len(labels) |-> <<"?", ", ">>])
        columns == Join(escapedLabels, <<", ">>)
    IN  [stmt |-> <<"INSERT INTO metrics (">> \o columns
                  \o <<", ", "\"value\"", ", ", "\"valueRaw\"", ", ", "\"timestamp\"",
                       ") VALUES (">>
                  \o placeholders \o <<" ", "?", ", ", "?", ", ", "?", ")">>,
         bulkArgs |-> BulkArgs(req, labels, 1),
         observed |-> [i \in 1..Len(req.timeseries) |-> Len(req.timeseries[i].samples)]]


(***************************************************************************)
(* The store call and the handlers (server.go:207-298, 355-406).  The      *)
(* store's reply to a POST is the environment's choice: a transport error, *)
(* or an HTTP status with a body that decodes as JSON into a crateResponse *)
(* (jsonOK) or does not.                                                   *)
(***************************************************************************)

StatusOK == 200

StatusBadRequest == 400

StatusInternalServerError == 500

TransportError == [kind |-> "transport_error", status |-> 0, jsonOK |-> FALSE,
                   data |-> [cols |-> <<>>, rows |-> <<>>]]

Http(status, jsonOK, data) ==
    [kind |-> "http", status |-> status, jsonOK |-> jsonOK, data |-> data]

NoReply == [kind |-> "none", status |-> 0, jsonOK |-> FALSE,
            data |-> [cols |-> <<>>, rows |-> <<>>]]

\* runQuery (server.go:207-241): whether it returns an error, the series it
\* returns, whether it panics, the requests it posts, and its effect on the
\* metrics.  On a status other than 200 it returns the nil error of the
\* POST that succeeded.
runQuery(q, reply) ==
    LET Failed(posted, err, crateErrors) ==
            [err |-> err, panic |-> FALSE, timeseries |-> <<>>, observed |-> <<>>,
             posted |-> posted, crateErrors |-> crateErrors]
        Assembled(assembled, request) ==
            [err |-> FALSE, panic |-> assembled.panic, timeseries |-> assembled.series,
             observed |-> assembled.observed, posted |-> <<request>>, crateErrors |-> 0]
        Post(request) ==
            IF reply.kind = "transport_error" THEN Failed(<<request>>, TRUE, 1)
            ELSE IF reply.status # StatusOK THEN Failed(<<request>>, FALSE, 1)
            ELSE IF ~reply.jsonOK THEN Failed(<<request>>, TRUE, 0)
            ELSE Assembled(responseToTimeseries(reply.data), request)
        Translated(query) ==
            IF query.err THEN Failed(<<>>, TRUE, 0)
            ELSE Post([stmt |-> query.sql, bulkArgs |-> <<>>])
    IN  Translated(queryToSQL(q))

\* A mutant of OneQuery: only a request without a query is turned away.
OneQuery_AtLeastOne(queries) == Len(queries) >= 1

\* The check of server.go:268.
OneQuery(queries) == Len(queries) = 1

\* A response: its status (0: the handler panicked, net/http closes the
\* connection without a response), what its body is, the series of a read
\* response, the requests posted to the store while it was made, and the
\* store's reply to them.
Response(status, type, timeseries, posted, reply) ==
    [kind |-> "response", status |-> status, type |-> type, timeseries |-> timeseries,
     posted |-> posted, reply |-> IF posted = <<>> THEN NoReply ELSE reply]

\* handleRead (server.go:243-298): the response, and the effect on the
\* metrics.
handleRead(body, reply) ==
    LET none == [response |-> Response(StatusBadRequest, "error", <<>>, <<>>, reply),
                 observed |-> <<>>, crateErrors |-> 0]
        Answer(run) ==
            [response |->
                 IF run.err
                 THEN Response(StatusInternalServerError, "error", <<>>, run.posted, reply)
                 ELSE IF run.panic THEN Response(0, "aborted", <<>>, run.posted, reply)
                 ELSE Response(StatusOK, "read", run.timeseries, run.posted, reply),
             observed |-> run.observed,
             crateErrors |-> run.crateErrors]
    IN  IF body.decode # "ok" THEN none
        ELSE IF ~OneQuery(body.queries) THEN none
        ELSE Answer(runQuery(body.queries[1], reply))

\* handleWrite (server.go:355-406): the response, and the effect on the
\* metrics.
handleWrite(body, reply) ==
    LET failed == reply.kind = "transport_error" \/ reply.status # StatusOK
        Answer(request) ==
            [response |->
                 Response(IF failed THEN StatusInternalServerError ELSE StatusOK,
                          IF failed THEN "error" ELSE "empty", <<>>,
                          <<[stmt |-> request.stmt, bulkArgs |-> request.bulkArgs]>>, reply),
             observed |-> request.observed,
             crateErrors |-> IF failed THEN 1 ELSE 0]
    IN  IF body.decode = "read_error"
        THEN [response |-> Response(StatusInternalServerError, "error", <<>>, <<>>, reply),
              observed |-> <<>>, crateErrors |-> 0]
        ELSE IF body.decode # "ok"
        THEN [response |-> Response(StatusBadRequest, "error", <<>>, <<>>, reply),
              observed |-> <<>>, crateErrors |-> 0]
        ELSE Answer(writesToCrateRequest(body.batch))


(***************************************************************************)
(* Initial state: the process after main() has built the adapter.          *)
(***************************************************************************)

NoCall == [fn |-> "none"]

NoResult == [kind |-> "none"]

InitMetrics ==
    /\ writeSamples = <<>>
    /\ readSamples = <<>>
    /\ writeCrateErrors = 0
    /\ readCrateErrors = 0
    /\ handled = 0

Init ==
    /\ call = NoCall
    /\ result = NoResult
    /\ InitMetrics

(***************************************************************************)
(* Query translation on its own                                            *)
(***************************************************************************)

\* The longest matcher value of SpecQuery.
MaxValueLen == 2

\* Characters of matcher values: a literal, the regular expression operators
\* of ReParse, and a character the escaper rewrites.
QueryChars == {"a", "*", "(", ")", "|", "'"}

QueryNames == {<<"j", "o", "b">>, <<"a", "'", "b">>}

MatchTypes == {"EQUAL", "NOT_EQUAL", "REGEX_MATCH", "REGEX_NO_MATCH"}

QueryMatchers ==
    {[type |-> t, name |-> n, value |-> v] :
        t \in MatchTypes, n \in QueryNames, v \in StringsUpTo(QueryChars, MaxValueLen)}

\* A valid second matcher, for the queries of two matchers.
NameIsUp == [type |-> "EQUAL", name |-> <<"_", "_", "n", "a", "m", "e", "_", "_">>,
             value |-> <<"u", "p">>]

Query(ms) == [matchers |-> ms, startTimestampMs |-> I64(1000), endTimestampMs |-> I64(2000)]

SpecQueryInputs ==
    {Query(<<>>)} \cup {Query(<<m>>) : m \in QueryMatchers}
                  \cup {Query(<<NameIsUp, m>>) : m \in QueryMatchers}

InitQuery ==
    /\ call \in {[fn |-> "queryToSQL", arg |-> q] : q \in SpecQueryInputs}
    /\ result = NoResult
    /\ InitMetrics

QueryToSQL ==
    /\ call.fn = "queryToSQL"
    /\ result.kind = "none"
    /\ result' = [kind |-> "sql"] @@ queryToSQL(call.arg)
    /\ UNCHANGED <<call, metrics, handled>>

NextQuery == QueryToSQL

SpecQuery == InitQuery /\ [][NextQuery]_vars

\* Whether chunk k of the format strings occurs in selector sel.  The chunks
\* of names and values are single characters, so a longer chunk is the
\* format's.
HasChunk(sel, k) == \E i \in 1..Len(sel) : sel[i] = k

\* The SQL truth value ("T", "F", or "U" for unknown) of selector sel on a
\* row whose column is NULL: a comparison with NULL is unknown, IS NULL is
\* true, IS NOT NULL is false, and the parts of a selector are joined by OR.
NullRowValue(sel) ==
    LET parts ==
            (IF \E op \in {" = ", " != ", " ~ ", " !~ "} : HasChunk(sel, op) THEN {"U"} ELSE {})
            \cup (IF HasChunk(sel, " IS NULL)") THEN {"T"} ELSE {})
            \cup (IF HasChunk(sel, " IS NOT NULL)") THEN {"F"} ELSE {})
    IN  IF "T" \in parts THEN "T" ELSE IF "U" \in parts THEN "U" ELSE "F"

\* A WHERE clause selects the rows on which it is true.
NullRowSelected(sel) == NullRowValue(sel) = "T"

\* Whether the matcher accepts the empty string as the label's value.
AcceptsEmpty(m) ==
    CASE m.type = "EQUAL" -> m.value = <<>>
      [] m.type = "NOT_EQUAL" -> m.value # <<>>
      [] m.type = "REGEX_MATCH" -> MatchStringEmpty(Anchored(m.value)).matched
      [] m.type = "REGEX_NO_MATCH" -> ~MatchStringEmpty(Anchored(m.value)).matched

\* C2: for every matcher of a translated query, a row whose label column is
\* NULL is selected by the matcher's predicate iff the matcher accepts the
\* empty string.
C2_NullIsEmptyString ==
    (result.kind = "sql" /\ ~result.err) =>
        \A i \in 1..Len(call.arg.matchers) :
            NullRowSelected(result.selectors[i]) <=> AcceptsEmpty(call.arg.matchers[i])

\* C2 for every matcher but NOT_EQUAL with a non-empty value.
C2_NullIsEmptyStringButNotEqual ==
    (result.kind = "sql" /\ ~result.err) =>
        \A i \in 1..Len(call.arg.matchers) :
            LET m == call.arg.matchers[i]
            IN  (m.type = "NOT_EQUAL" /\ m.value # <<>>)
                \/ (NullRowSelected(result.selectors[i]) <=> AcceptsEmpty(m))


(***************************************************************************)
(* Result assembly on its own                                              *)
(***************************************************************************)

\* The most rows of a result table of SpecAssemble.
MaxRows == 2

\* The columns of SELECT * on a table with the labels __name__ and a.
AssembleCols == <<<<"l">> \o MetricNameLabel, <<"l", "a">>, Timestamp, Value, ValueRaw>>

\* Metric names: an ordinary one, and two that read like a rendered label set.
AssembleNames ==
    {Null, Str(<<"u", "p">>), Str(<<"{", "}">>), Str(<<"{", "a", "=", "\"", "x", "\"", "}">>)}

AssembleLabelValues == {Null, Str(<<"x">>), Str(<<>>)}

AssembleTimes == {Num(TRUE, FALSE, <<0, 0, 0, 1>>), Num(TRUE, FALSE, <<0, 0, 0, 2>>)}

\* valueRaw of 0.0, of +Inf and of the NaN with all bits set (-1).
AssembleRaws ==
    {Num(TRUE, FALSE, Zero64), Num(TRUE, FALSE, <<32752, 0, 0, 0>>), Num(TRUE, TRUE, <<0, 0, 0, 1>>)}

AssembleRowSet ==
    {<<name, a, t, Num(FALSE, FALSE, Zero64), raw>> :
        name \in AssembleNames, a \in AssembleLabelValues, t \in AssembleTimes,
        raw \in AssembleRaws}

RECURSIVE SeqsUpTo(_, _)
SeqsUpTo(S, n) ==
    IF n = 0 THEN {<<>>}
    ELSE LET shorter == SeqsUpTo(S, n - 1)
         IN  shorter \cup {Append(q, x) : q \in shorter, x \in S}

InitAssemble ==
    /\ call \in {[fn |-> "responseToTimeseries", arg |-> [cols |-> AssembleCols, rows |-> rows]] :
                    rows \in SeqsUpTo(AssembleRowSet, MaxRows)}
    /\ result = NoResult
    /\ InitMetrics

\* responseToTimeseries applied to call.arg; its Observe calls are on
\* writeSamples (server.go:196).
ResponseToTimeseries ==
    /\ call.fn = "responseToTimeseries"
    /\ result.kind = "none"
    /\ LET r == responseToTimeseries(call.arg)
       IN  /\ result' = [kind |-> "series"] @@ r
           /\ writeSamples' = writeSamples \o r.observed
    /\ UNCHANGED <<call, readSamples, writeCrateErrors, readCrateErrors, handled>>

NextAssemble == ResponseToTimeseries

SpecAssemble == InitAssemble /\ [][NextAssemble]_vars

\* The label set of row r of a table: the (name, value) pairs of its label
\* columns that are not NULL.
RowLabelSet(data, r) ==
    {<<Tail(data.cols[i]), data.rows[r][i].s>> :
        i \in {j \in 1..Len(data.cols) : data.cols[j][1] = "l" /\ data.rows[r][j].k # "null"}}

\* The label set of a returned series.
SeriesLabelSet(ts) == {<<ts.labels[i].name, ts.labels[i].value>> : i \in 1..Len(ts.labels)}

\* The cell of row r in the column called name (the tables here have it).
CellOf(data, r, name) ==
    data.rows[r][CHOOSE i \in 1..Len(data.cols) : data.cols[i] = name]

\* The sample a well-formed row stands for.
RowSample(data, r) ==
    [value |-> Uint64FromInt64([neg |-> CellOf(data, r, ValueRaw).n.neg,
                                mag |-> CellOf(data, r, ValueRaw).n.mag]),
     timestampMs |-> [neg |-> CellOf(data, r, Timestamp).n.neg,
                      mag |-> CellOf(data, r, Timestamp).n.mag]]

\* The rows of data, in order, whose label set is L, as samples.
RECURSIVE SamplesOf(_, _, _)
SamplesOf(data, L, r) ==
    IF r > Len(data.rows) THEN <<>>
    ELSE (IF RowLabelSet(data, r) = L THEN <<RowSample(data, r)>> ELSE <<>>)
         \o SamplesOf(data, L, r + 1)

RECURSIVE SumSeq(_)
SumSeq(q) == IF q = <<>> THEN 0 ELSE Head(q) + SumSeq(Tail(q))

IsSortedByName(labels) ==
    \A i \in 1..(Len(labels) - 1) : StrLess(labels[i].name, labels[i + 1].name)

\* C7: of a well-formed table every row's sample is in exactly one series
\* (as many samples out as rows in); the rows of one label set are in one
\* series, whose labels are that set sorted by name (no labels for the empty
\* set), and whose samples are those rows' samples in the order of the rows.
C7_RowsGroupedInOrder ==
    (result.kind = "series") =>
        /\ ~result.panic
        /\ SumSeq([k \in 1..Len(result.series) |-> Len(result.series[k].samples)])
               = Len(call.arg.rows)
        /\ \A r \in 1..Len(call.arg.rows) :
               \E k \in 1..Len(result.series) :
                   /\ SeriesLabelSet(result.series[k]) = RowLabelSet(call.arg, r)
                   /\ Len(result.series[k].labels) = Cardinality(RowLabelSet(call.arg, r))
                   /\ IsSortedByName(result.series[k].labels)
                   /\ result.series[k].samples = SamplesOf(call.arg, RowLabelSet(call.arg, r), 1)
                   /\ \A k2 \in 1..Len(result.series) :
                          SeriesLabelSet(result.series[k2]) = RowLabelSet(call.arg, r) => k2 = k

\* C9: rows of different label sets are never in one series: there are as
\* many series as there are distinct label sets among the rows.
C9_GroupingIsInjective ==
    (result.kind = "series" /\ ~result.panic) =>
        Len(result.series)
            = Cardinality({RowLabelSet(call.arg, r) : r \in 1..Len(call.arg.rows)})

\* Whether no metric name of the table reads like a rendered label set.
PlainNames(data) ==
    \A r \in 1..Len(data.rows) :
        CellOf(data, r, <<"l">> \o MetricNameLabel).k = "str" =>
            "{" \notin {CellOf(data, r, <<"l">> \o MetricNameLabel).s[i] :
                            i \in 1..Len(CellOf(data, r, <<"l">> \o MetricNameLabel).s)}


(***************************************************************************)
(* The write builder on its own                                            *)
(***************************************************************************)

\* The most series of a write batch of SpecWrite.
MaxSeries == 2

\* The most samples of a series of SpecWrite.
MaxSamples == 2

WriteLabelNames == {<<"a">>, <<"b">>}

WriteLabelValues == {<<>>, <<"1">>}

WriteLabelPairs == {[name |-> n, value |-> v] : n \in WriteLabelNames, v \in WriteLabelValues}

\* The label lists of a series: names are unique, in any order.
WriteLabelSeqs ==
    {<<>>} \cup {<<p>> : p \in WriteLabelPairs}
           \cup {pq \in WriteLabelPairs \X WriteLabelPairs : pq[1].name # pq[2].name}

\* 1.0 at 1 ms, a NaN at 2 ms, -Inf at 2 ms.
WriteSampleSet ==
    {[value |-> <<16368, 0, 0, 0>>, timestampMs |-> I64(1)],
     [value |-> <<32760, 0, 0, 1>>, timestampMs |-> I64(2)],
     [value |-> <<65520, 0, 0, 0>>, timestampMs |-> I64(2)]}

WriteSeries ==
    {[labels |-> l, samples |-> ss] :
        l \in WriteLabelSeqs, ss \in SeqsUpTo(WriteSampleSet, MaxSamples)}

InitWrite ==
    /\ call \in {[fn |-> "writesToCrateRequest", arg |-> [timeseries |-> b]] :
                    b \in SeqsUpTo(WriteSeries, MaxSeries)}
    /\ result = NoResult
    /\ InitMetrics

WritesToCrateRequest ==
    /\ call.fn = "writesToCrateRequest"
    /\ result.kind = "none"
    /\ LET r == writesToCrateRequest(call.arg)
       IN  /\ result' = [kind |-> "request"] @@ r
           /\ writeSamples' = writeSamples \o r.observed
    /\ UNCHANGED <<call, readSamples, writeCrateErrors, readCrateErrors, handled>>

NextWrite == WritesToCrateRequest

SpecWrite == InitWrite /\ [][NextWrite]_vars

\* The (series, sample) pairs of a batch, in batch order.
RECURSIVE SamplePairs(_, _)
SamplePairs(req, i) ==
    IF i > Len(req.timeseries) THEN <<>>
    ELSE [j \in 1..Len(req.timeseries[i].samples) |-> <<i, j>>] \o SamplePairs(req, i + 1)

\* The value a series has for a label name, or <<>> if it has none.
ValueOf(ts, name) ==
    IF \E j \in 1..Len(ts.labels) : ts.labels[j].name = name
    THEN ts.labels[CHOOSE j \in 1..Len(ts.labels) : ts.labels[j].name = name].value
    ELSE <<>>

\* The index of chunk k in a statement.
ChunkIndex(stmt, k) == CHOOSE i \in 1..Len(stmt) : stmt[i] = k

\* The entries of a list of chunks separated by the chunk ", ".
RECURSIVE SplitList(_)
SplitList(chunks) ==
    IF \E i \in 1..Len(chunks) : chunks[i] = ", "
    THEN LET i == CHOOSE j \in 1..Len(chunks) :
                      chunks[j] = ", " /\ \A h \in 1..(j - 1) : chunks[h] # ", "
         IN  <<SubSeq(chunks, 1, i - 1)>> \o SplitList(SubSeq(chunks, i + 1, Len(chunks)))
    ELSE <<chunks>>

\* The column list of an INSERT statement: what stands between
\* "INSERT INTO metrics (" and ") VALUES (", split at the separators.
StmtColumns(stmt) == SplitList(SubSeq(stmt, 2, ChunkIndex(stmt, ") VALUES (") - 1))

\* The number of placeholders of an INSERT statement.
StmtPlaceholders(stmt) ==
    Cardinality({i \in (ChunkIndex(stmt, ") VALUES (") + 1)..Len(stmt) : stmt[i] = "?"})

\* The argument rows of C6: one per (series, sample) pair, in batch order;
\* each holds, for the labels of the sorted union in order, the series'
\* value if it is not empty and NULL otherwise, then the decimal string,
\* the raw pattern as an int64 and the timestamp.
C6_ArgumentRows ==
    (result.kind = "request") =>
        LET req == call.arg
            labels == SortStrings(LabelsUsed(req))
            pairs == SamplePairs(req, 1)
        IN  /\ Len(result.bulkArgs) = Len(pairs)
            /\ Len(pairs) = SumSeq([i \in 1..Len(req.timeseries) |-> Len(req.timeseries[i].samples)])
            /\ \A p \in 1..Len(pairs) :
                   LET ts == req.timeseries[pairs[p][1]]
                       sample == ts.samples[pairs[p][2]]
                       row == result.bulkArgs[p]
                   IN  /\ Len(row) = Len(labels) + 3
                       /\ \A i \in 1..Len(labels) :
                              row[i] = IF ValueOf(ts, labels[i]) # <<>>
                                       THEN Str(ValueOf(ts, labels[i])) ELSE Null
                       /\ row[Len(labels) + 1].k \in {"str", "decimal"}
                       /\ row[Len(labels) + 2].k = "int"
                       /\ Uint64FromInt64(row[Len(labels) + 2].n) = sample.value
                       /\ row[Len(labels) + 3] = IntArg(sample.timestampMs)

\* The statement of C6: one column and one placeholder per label of the
\* sorted union, in order, and the three fixed ones.
C6_StatementShape ==
    (result.kind = "request") =>
        LET labels == SortStrings(LabelsUsed(call.arg))
        IN  /\ StmtColumns(result.stmt)
                   = [i \in 1..Len(labels) |-> escapeLabelName(labels[i])]
                     \o << <<"\"value\"">>, <<"\"valueRaw\"">>, <<"\"timestamp\"">> >>
            /\ StmtPlaceholders(result.stmt) = Len(labels) + 3

\* C6: the argument rows and the statement of every write batch are as
\* described: one row per (series, sample) pair in batch order, with the
\* union labels' values or NULL and three fixed arguments, and a statement
\* of one column and one placeholder per union label plus the three fixed.
C6_WriteBuilderShape == C6_ArgumentRows /\ C6_StatementShape

\* C6 for the batches that use at least one label name.
C6_WriteBuilderShapeWithLabels ==
    (result.kind = "request" /\ LabelsUsed(call.arg) # {}) => C6_WriteBuilderShape


(***************************************************************************)
(* The server: requests are handled one after the other.                   *)
(***************************************************************************)

\* The number of requests the server handles.
MaxRequests == 2

InvalidRegex == [type |-> "REGEX_MATCH", name |-> <<"j", "o", "b">>, value |-> <<"(">>]

StarRegex == [type |-> "REGEX_NO_MATCH", name |-> <<"j", "o", "b">>, value |-> <<"a", "*">>]

HandlerQueries == {Query(<<NameIsUp>>), Query(<<NameIsUp, StarRegex>>), Query(<<InvalidRegex>>)}

\* A body that cannot be read, is not snappy, is no ReadRequest, or decodes.
ReadBodies ==
    {[decode |-> d, queries |-> <<>>] : d \in {"read_error", "snappy_error", "proto_error"}}
    \cup {[decode |-> "ok", queries |-> qs] : qs \in SeqsUpTo(HandlerQueries, 2)}

One == Num(TRUE, FALSE, <<0, 0, 0, 1>>)

Two == Num(TRUE, FALSE, <<0, 0, 0, 2>>)

Up == Str(<<"u", "p">>)

HandlerCols == <<<<"l">> \o MetricNameLabel, Timestamp, ValueRaw>>

\* Result tables: none and two well-formed ones; a timestamp with a
\* fraction; a valueRaw beyond int64; no valueRaw column; a timestamp that
\* is a string; a valueRaw that is null.
HandlerTables ==
    {[cols |-> HandlerCols, rows |-> <<>>],
     [cols |-> HandlerCols, rows |-> <<<<Up, One, One>>>>],
     [cols |-> HandlerCols, rows |-> <<<<Up, One, One>>, <<Null, One, Two>>, <<Up, Two, Two>>>>],
     [cols |-> HandlerCols, rows |-> <<<<Up, Num(FALSE, FALSE, <<0, 0, 0, 1>>), One>>>>],
     [cols |-> HandlerCols, rows |-> <<<<Up, One, Num(TRUE, FALSE, <<65535, 0, 0, 0>>)>>>>],
     [cols |-> <<<<"l">> \o MetricNameLabel, Timestamp>>, rows |-> <<<<Up, One>>>>],
     [cols |-> HandlerCols, rows |-> <<<<Up, Str(<<"1">>), One>>>>],
     [cols |-> HandlerCols, rows |-> <<<<Up, One, Null>>>>]}

ReadReplies ==
    {TransportError, Http(500, FALSE, NoReply.data), Http(404, FALSE, NoReply.data),
     Http(StatusOK, FALSE, NoReply.data)}
    \cup {Http(StatusOK, TRUE, t) : t \in HandlerTables}

Series(labels, samples) == [labels |-> labels, samples |-> samples]

SampleOf(bits, t) == [value |-> bits, timestampMs |-> I64(t)]

LabelA == [name |-> <<"a">>, value |-> <<"1">>]

LabelB == [name |-> <<"b">>, value |-> <<"2">>]

\* Write batches: none; one series, one sample; two series of different
\* labels, three samples; a series without labels; a series without samples.
HandlerBatches ==
    {[timeseries |-> <<>>],
     [timeseries |-> <<Series(<<LabelA>>, <<SampleOf(<<16368, 0, 0, 0>>, 1)>>)>>],
     [timeseries |-> <<Series(<<LabelA>>, <<SampleOf(<<16368, 0, 0, 0>>, 1),
                                             SampleOf(<<32760, 0, 0, 1>>, 2)>>),
                       Series(<<LabelB>>, <<SampleOf(<<65520, 0, 0, 0>>, 1)>>)>>],
     [timeseries |-> <<Series(<<>>, <<SampleOf(<<16368, 0, 0, 0>>, 1)>>)>>],
     [timeseries |-> <<Series(<<LabelB, LabelA>>, <<>>)>>]}

WriteBodies ==
    {[decode |-> d, batch |-> [timeseries |-> <<>>]] :
        d \in {"read_error", "snappy_error", "proto_error"}}
    \cup {[decode |-> "ok", batch |-> b] : b \in HandlerBatches}

WriteReplies ==
    {TransportError, Http(500, FALSE, NoReply.data), Http(StatusOK, TRUE, NoReply.data)}

\* A read request arrives and is answered.  responseToTimeseries observes
\* on writeSamples (server.go:196).
HandleRead ==
    /\ handled < MaxRequests
    /\ \E body \in ReadBodies, reply \in ReadReplies :
           \E h \in {handleRead(body, reply)} :
               /\ call' = [fn |-> "handleRead", arg |-> body]
               /\ result' = h.response
               /\ writeSamples' = writeSamples \o h.observed
               /\ readCrateErrors' = readCrateErrors + h.crateErrors
    /\ handled' = handled + 1
    /\ UNCHANGED <<readSamples, writeCrateErrors>>

\* A write request arrives and is answered.
HandleWrite ==
    /\ handled < MaxRequests
    /\ \E body \in WriteBodies, reply \in WriteReplies :
           \E h \in {handleWrite(body, reply)} :
               /\ call' = [fn |-> "handleWrite", arg |-> body]
               /\ result' = h.response
               /\ writeSamples' = writeSamples \o h.observed
               /\ writeCrateErrors' = writeCrateErrors + h.crateErrors
    /\ handled' = handled + 1
    /\ UNCHANGED <<readSamples, readCrateErrors>>

Next == HandleRead \/ HandleWrite

Spec == Init /\ [][Next]_vars

\* Whether the store call of the last request ended in a transport error or
\* a status other than 200.
StoreCallFailed ==
    /\ result.kind = "response"
    /\ result.posted # <<>>
    /\ result.reply.kind = "transport_error" \/ result.reply.status # 200

\* C1: a read or write request whose store call ends in a transport error
\* or a status other than 200 is answered with a server error, and on the
\* read path with no time-series response.
C1_StoreFailureIsServerError ==
    StoreCallFailed => (result.status = 500 /\ result.type = "error")

\* C1 on the write path alone.
C1_WriteStoreFailureIsServerError ==
    (StoreCallFailed /\ call.fn = "handleWrite") => (result.status = 500 /\ result.type = "error")

\* Whether cell c is an integer token that fits in an int64.
IsInt64Token(c) ==
    /\ c.k = "num"
    /\ c.n.int
    /\ InInt64Range([neg |-> c.n.neg, mag |-> c.n.mag])

HasColumn(data, name) == \E i \in 1..Len(data.cols) : data.cols[i] = name

\* Whether a result table lacks the timestamp or valueRaw column, or holds in
\* one of them a cell that is no integer token fitting in 64 bits.
Malformed(data) ==
    \/ ~HasColumn(data, Timestamp)
    \/ ~HasColumn(data, ValueRaw)
    \/ \E r \in 1..Len(data.rows), i \in 1..Len(data.cols) :
           data.cols[i] \in {Timestamp, ValueRaw} /\ ~IsInt64Token(data.rows[r][i])

\* Whether the store answered the last request, a read, with status 200 and
\* a result table.
TableReturned ==
    /\ result.kind = "response"
    /\ call.fn = "handleRead"
    /\ result.posted # <<>>
    /\ result.reply.kind = "http"
    /\ result.reply.status = 200
    /\ result.reply.jsonOK

\* C3: a read request whose result table is malformed is answered with a
\* server error, and no sample is returned for it.
C3_MalformedTableIsServerError ==
    (TableReturned /\ Malformed(result.reply.data)) =>
        (result.status = 500 /\ result.type = "error" /\ result.timeseries = <<>>)

\* Whether the body of the last request, a read, decodes into exactly one
\* query whose matchers all translate.
Translatable(body) ==
    /\ body.decode = "ok"
    /\ Len(body.queries) = 1
    /\ \A i \in 1..Len(body.queries[1].matchers) : ~MatcherFails(body.queries[1].matchers[i])

\* C4: a request makes at most one store call, and a failed one is not
\* repeated; a write request makes one iff its body decodes; a read request
\* makes one iff its body decodes into exactly one query that translates,
\* and then the statement posted is that query's translation.
C4_AtMostOneStoreCall ==
    (result.kind = "response") =>
        /\ Len(result.posted) <= 1
        /\ call.fn = "handleWrite" =>
               (Len(result.posted) = 1 <=> call.arg.decode = "ok")
        /\ call.fn = "handleRead" =>
               /\ Len(result.posted) = 1 <=> Translatable(call.arg)
               /\ Len(result.posted) = 1 =>
                      result.posted[1].stmt = queryToSQL(call.arg.queries[1]).sql

\* A read request's only store call has failed and was not repeated.
C4_Witness ==
    /\ result.kind = "response"
    /\ call.fn = "handleRead"
    /\ result.reply.kind = "transport_error"
    /\ Len(result.posted) = 1
    /\ handled = MaxRequests

\* C5: a read request whose single query has a regular expression matcher
\* with an invalid pattern is answered with the client error status of the
\* undecodable bodies (400), and nothing is posted for it.
C5_InvalidRegexIsClientError ==
    (/\ result.kind = "response"
     /\ call.fn = "handleRead"
     /\ call.arg.decode = "ok"
     /\ Len(call.arg.queries) = 1
     /\ \E i \in 1..Len(call.arg.queries[1].matchers) :
            MatcherFails(call.arg.queries[1].matchers[i]))
    => (result.status = 400 /\ result.posted = <<>>)

\* The sample counts of a sequence of series.
SampleCounts(series) == [i \in 1..Len(series) |-> Len(series[i].samples)]

\* C10: answering a read request records the sample count of each returned
\* series in readSamples and leaves writeSamples as it is; writeSamples
\* changes only in a write request, by one observation per written series.
C10_ReadRecordsReadSamples ==
    [][/\ (call'.fn = "handleRead" /\ handled' = handled + 1) =>
              /\ writeSamples' = writeSamples
              /\ readSamples' = readSamples \o SampleCounts(result'.timeseries)
       /\ (writeSamples' # writeSamples) =>
              /\ call'.fn = "handleWrite"
              /\ writeSamples' = writeSamples \o SampleCounts(call'.arg.batch.timeseries)
      ]_vars

\* The write half of C10: a write request that reaches the builder adds one
\* observation per series of its batch to writeSamples, and never touches
\* readSamples.
C10_WriteRecordsWriteSamples ==
    [][(call'.fn = "handleWrite" /\ handled' = handled + 1) =>
           /\ readSamples' = readSamples
           /\ writeSamples' = writeSamples \o
                  (IF call'.arg.decode = "ok" THEN SampleCounts(call'.arg.batch.timeseries)
                   ELSE <<>>)
      ]_vars


(***************************************************************************)
(* The raw-bit encoding of a sample value, write side then read side.      *)
(***************************************************************************)

\* The limbs the bit patterns of SpecBits are built from: they give zero,
\* the subnormals, +Inf (7FF0 0...), -Inf (FFF0 0...), quiet and signalling
\* NaNs of both signs, and the all-ones pattern.
BitLimbs == {0, 1, 32752, 32760, 32768, 65520, 65535}

BitPatterns == {<<a, b, c, d>> : a \in BitLimbs, b \in BitLimbs, c \in BitLimbs, d \in BitLimbs}

InitBits ==
    /\ call \in {[fn |-> "valueRaw", arg |-> b] : b \in BitPatterns}
    /\ result = NoResult
    /\ InitMetrics

\* writesToCrateRequest: args = append(args, int64(math.Float64bits(s.Value)))
EncodeValueRaw ==
    /\ call.fn = "valueRaw"
    /\ result.kind = "none"
    /\ result' = [kind |-> "stored", raw |-> Int64FromUint64(call.arg)]
    /\ UNCHANGED <<call, metrics, handled>>

\* responseToTimeseries: v = math.Float64frombits(uint64(val))
DecodeValueRaw ==
    /\ call.fn = "valueRaw"
    /\ result.kind = "stored"
    /\ result' = [kind |-> "decoded", raw |-> result.raw, bits |-> Uint64FromInt64(result.raw)]
    /\ UNCHANGED <<call, metrics, handled>>

NextBits == EncodeValueRaw \/ DecodeValueRaw

SpecBits == InitBits /\ [][NextBits]_vars

\* C8: every 64-bit sample value pattern (NaN, +Inf, -Inf and every pattern
\* with the sign bit set included) is recovered exactly when it is encoded on
\* write as int64(bits) and decoded on read as uint64 of that integer; the
\* stored integer is within the range of int64.
C8_RawBitsRoundTrip ==
    /\ result.kind = "stored" => InInt64Range(result.raw)
    /\ result.kind = "decoded" => result.bits = call.arg

\* A negative infinity (sign bit set) has been stored as a negative integer
\* and decoded.
C8_Witness ==
    /\ result.kind = "decoded"
    /\ call.arg = <<65520, 0, 0, 0>>
    /\ result.raw.neg

====
